---- MODULE Spec2Model ----
(***************************************************************************)
(* LoggingLightRAG (lightrag_expriments/notebooks/lightraglogger.py): a    *)
(* subclass of LightRAG whose insert/query coroutines await the engine and *)
(* then account the call in two counters, usage.log and                    *)
(* api_usage_log.json.                                                     *)
(*                                                                         *)
(* The engine (LightRAG.ainsert / LightRAG.query) is an external           *)
(* collaborator: its outcome is an input, drawn from the responses the     *)
(* wrapper is written for (None, or a mapping that may carry               *)
(* usage.total_tokens), or an exception.  Several calls may be awaiting    *)
(* the engine at once on one event loop; the code after the await runs to  *)
(* the return without another await, so it is one step.                    *)
(***************************************************************************)
EXTENDS Integers, Sequences, FiniteSets, TLC

\* ---- bounds --------------------------------------------------------------
MaxCalls == 2      \* calls issued on the wrapper instance
MaxTok   == 2      \* largest usage.total_tokens an engine response reports
MaxClock == 1      \* values of the wall clock (time.strftime)

Calls == 1..MaxCalls

\* ---- values --------------------------------------------------------------
\* What an awaited engine call yields, and what the wrapper yields to its
\* caller: Python None, a value, or a raised exception.
None       == [kind |-> "none"]
Value(v)   == [kind |-> "value", value |-> v]
Raise(e)   == [kind |-> "raise", exc |-> e]
Pending    == [kind |-> "pending"]

NoExc == ""
DelegateExceptions == {"ValueError", "TimeoutError"}

\* response['usage'] : with or without the total_tokens key
Usages ==
    {[prompt_tokens |-> 1]} \cup
    {[prompt_tokens |-> 1, total_tokens |-> t] : t \in 0..MaxTok}

\* the engine's response mapping : with or without the usage key
Responses ==
    {[content |-> "ok"]} \cup {[content |-> "ok", usage |-> u] : u \in Usages}

DelegateOutcomes ==
    {None} \cup {Value(r) : r \in Responses} \cup {Raise(e) : e \in DelegateExceptions}

\* ---- logging -------------------------------------------------------------
Info(m)    == [level |-> "INFO", msg |-> m]
Warning(m) == [level |-> "WARNING", msg |-> m]
Error(m)   == [level |-> "ERROR", msg |-> m]

ApiUsageFile == "api_usage_log.json"

\* ---- state ---------------------------------------------------------------
VARIABLES
    api_call_count,     \* self.api_call_count
    total_token_usage,  \* self.total_token_usage
    api_usage_log,      \* blocks this instance appended to <log_dir>/api_usage_log.json
    usage_log,          \* lines this instance logged to <log_dir>/usage.log
    now,                \* the wall clock read by time.strftime
    pc,                 \* per call: idle, awaiting, resumable, returned, raised
    op,                 \* per call: "insert" or "query" ("" before the call)
    result,             \* per call: what the awaited engine call yielded
    ret,                \* per call: what the wrapper yielded to its caller
    wrote,              \* per call: outcome of its _write_to_file ("na" if none)
    order               \* call ids in the order their coroutines resumed

vars == <<api_call_count, total_token_usage, api_usage_log, usage_log, now,
          pc, op, result, ret, wrote, order>>

\* ---- helpers -------------------------------------------------------------
\* variant: a default of 1 instead of the one passed
GetDefaultOne(m, k, d) == IF k \in DOMAIN m THEN m[k] ELSE 1

\* dict.get(key, default)
Get(m, k, d) == IF k \in DOMAIN m THEN m[k] ELSE d

\* 'usage' in response
HasUsage(response) == "usage" \in DOMAIN response

\* variant: the increment is missing
IncCountMissing(n) == n

\* self.api_call_count += 1
IncCount(n) == n + 1

\* variant: assignment instead of +=
AddTokensOverwrite(total, t) == t

\* self.total_token_usage += token_usage
AddTokens(total, t) == total + t

\* variant: the record carries the call's own usage as its running total
LogDataOwnUsage(count, operation, t, total, ts) ==
    [api_call |-> count, operation |-> operation, token_usage |-> t,
     total_token_usage |-> t, timestamp |-> ts]

\* log_data
LogData(count, operation, t, total, ts) ==
    [api_call |-> count, operation |-> operation, token_usage |-> t,
     total_token_usage |-> total, timestamp |-> ts]

\* variant: no try/except around the write, the error propagates
WriteToFileUnguarded(file, log, filename, data, ok) ==
    IF ok
    THEN [file |-> Append(file, data),
          log  |-> Append(log, Info("Data written to " \o filename \o ".")),
          exc  |-> NoExc]
    ELSE [file |-> file, log |-> log, exc |-> "OSError"]

\* _write_to_file(filename, data): open(filepath, "a"), json.dump, newline.
\* ok = FALSE: the open or the write raises; the except clause logs it.
WriteToFile(file, log, filename, data, ok) ==
    IF ok
    THEN [file |-> Append(file, data),
          log  |-> Append(log, Info("Data written to " \o filename \o ".")),
          exc  |-> NoExc]
    ELSE [file |-> file,
          log  |-> Append(log, Error("Error writing data to file " \o filename)),
          exc  |-> NoExc]

\* _log_api_usage(operation, response)
LogApiUsage(count, total, file, log, operation, response, ts, ok) ==
    LET n == IncCount(count) IN
    IF response.kind = "none"
    THEN \* 'usage' in None raises TypeError, after the increment
         [count |-> n, total |-> total, file |-> file, log |-> log,
          exc |-> "TypeError"]
    ELSE IF HasUsage(response.value)
    THEN LET t    == Get(response.value.usage, "total_tokens", 0)
             tot  == AddTokens(total, t)
             log1 == log \o
                     << Info("API Call #" \o ToString(n) \o " (" \o operation \o ")"),
                        Info("  Token Usage: " \o ToString(t)),
                        Info("  Total Token Usage: " \o ToString(tot)) >>
             w    == WriteToFile(file, log1, ApiUsageFile,
                                 LogData(n, operation, t, tot, ts), ok)
         IN  [count |-> n, total |-> tot, file |-> w.file, log |-> w.log,
              exc |-> w.exc]
    ELSE [count |-> n, total |-> total, file |-> file,
          log |-> Append(log, Warning("API Response for " \o operation \o
                                      " did not include 'usage' data.")),
          exc |-> NoExc]

\* variant: the None check is missing
IsNoneNever(r) == FALSE

\* result is None
IsNone(r) == r.kind = "none"

\* variant: the except clause logs and falls through (returns None)
Swallow(e) == None

\* the bare raise of the except clauses
Reraise(e) == Raise(e)

\* variant: the return statement is missing (returns None)
ReturnNothing(r) == None

\* return result / return response
ReturnResult(r) == r

\* insert(document), from the resumption of await self.ainsert(document)
Insert(count, total, file, log, r, ts, ok) ==
    IF r.kind = "raise"
    THEN [count |-> count, total |-> total, file |-> file,
          log |-> Append(log, Error("Error during document insertion: " \o r.exc)),
          ret |-> Reraise(r.exc)]
    ELSE IF IsNone(r)
    THEN [count |-> count, total |-> total, file |-> file,
          log |-> Append(log, Warning("Insert operation returned None.")),
          ret |-> None]
    ELSE LET u == LogApiUsage(count, total, file, log, "insert", r, ts, ok) IN
         IF u.exc # NoExc
         THEN [count |-> u.count, total |-> u.total, file |-> u.file,
               log |-> Append(u.log, Error("Error during document insertion: " \o u.exc)),
               ret |-> Reraise(u.exc)]
         ELSE [count |-> u.count, total |-> u.total, file |-> u.file,
               log |-> Append(u.log, Info("Document(s) inserted into LoggingLightRAG.")),
               ret |-> ReturnResult(r)]

\* query(query, param), from the resumption of await super().query(query, param)
Query(count, total, file, log, r, ts, ok) ==
    IF r.kind = "raise"
    THEN [count |-> count, total |-> total, file |-> file,
          log |-> Append(log, Error("Error during query execution: " \o r.exc)),
          ret |-> Reraise(r.exc)]
    ELSE LET u == LogApiUsage(count, total, file, log, "query", r, ts, ok) IN
         IF u.exc # NoExc
         THEN [count |-> u.count, total |-> u.total, file |-> u.file,
               log |-> Append(u.log, Error("Error during query execution: " \o u.exc)),
               ret |-> Reraise(u.exc)]
         ELSE [count |-> u.count, total |-> u.total, file |-> u.file,
               log |-> u.log,
               ret |-> ReturnResult(r)]

\* ---- initial state -------------------------------------------------------
\* __init__: counters at 0; _set_logger and _log_initialization have logged.
\* isinstance(self, dataclass) has a function as its second argument and
\* raises TypeError inside the try, so the except clause logs the error.
InitLog ==
    << Info("Logger initialized. Writing logs to usage.log."),
       Info("LoggingLightRAG initialized with the following parameters:"),
       Error("Error logging initialization parameters: TypeError") >>

Init ==
    /\ api_call_count = 0
    /\ total_token_usage = 0
    /\ api_usage_log = << >>
    /\ usage_log = InitLog
    /\ now = 0
    /\ pc = [c \in Calls |-> "idle"]
    /\ op = [c \in Calls |-> ""]
    /\ result = [c \in Calls |-> Pending]
    /\ ret = [c \in Calls |-> Pending]
    /\ wrote = [c \in Calls |-> "na"]
    /\ order = << >>

\* ---- actions -------------------------------------------------------------
\* Call ids are handed out in order: call c starts once c-1 has started.
CanStart(c) == pc[c] = "idle" /\ (IF c = 1 THEN TRUE ELSE pc[c - 1] # "idle")

\* the caller awaits rag.insert(document): runs up to await self.ainsert
CallInsert(c) ==
    /\ CanStart(c)
    /\ pc' = [pc EXCEPT ![c] = "awaiting"]
    /\ op' = [op EXCEPT ![c] = "insert"]
    /\ UNCHANGED <<api_call_count, total_token_usage, api_usage_log, usage_log,
                   now, result, ret, wrote, order>>

\* the caller awaits rag.query(query, param): runs up to await super().query
CallQuery(c) ==
    /\ CanStart(c)
    /\ pc' = [pc EXCEPT ![c] = "awaiting"]
    /\ op' = [op EXCEPT ![c] = "query"]
    /\ UNCHANGED <<api_call_count, total_token_usage, api_usage_log, usage_log,
                   now, result, ret, wrote, order>>

\* the engine finishes the awaited operation of call c
DelegateCompletes(c) ==
    /\ pc[c] = "awaiting"
    /\ \E o \in DelegateOutcomes : result' = [result EXCEPT ![c] = o]
    /\ pc' = [pc EXCEPT ![c] = "resumable"]
    /\ UNCHANGED <<api_call_count, total_token_usage, api_usage_log, usage_log,
                   now, op, ret, wrote, order>>

WriteAttempted(r) == r.kind = "value" /\ HasUsage(r.value)

Finish(c, s, ok) ==
    /\ api_call_count' = s.count
    /\ total_token_usage' = s.total
    /\ api_usage_log' = s.file
    /\ usage_log' = s.log
    /\ ret' = [ret EXCEPT ![c] = s.ret]
    /\ pc' = [pc EXCEPT ![c] = IF s.ret.kind = "raise" THEN "raised" ELSE "returned"]
    /\ wrote' = [wrote EXCEPT ![c] =
                    IF WriteAttempted(result[c])
                    THEN (IF ok THEN "ok" ELSE "fail") ELSE "na"]
    /\ order' = Append(order, c)
    /\ UNCHANGED <<now, op, result>>

\* the event loop resumes insert after its await; it runs to its return
ResumeInsert(c) ==
    /\ pc[c] = "resumable"
    /\ op[c] = "insert"
    /\ \E ok \in BOOLEAN :
          Finish(c, Insert(api_call_count, total_token_usage, api_usage_log,
                           usage_log, result[c], now, ok), ok)

\* the event loop resumes query after its await; it runs to its return
ResumeQuery(c) ==
    /\ pc[c] = "resumable"
    /\ op[c] = "query"
    /\ \E ok \in BOOLEAN :
          Finish(c, Query(api_call_count, total_token_usage, api_usage_log,
                          usage_log, result[c], now, ok), ok)

\* wall-clock time passes
Tick ==
    /\ now < MaxClock
    /\ now' = now + 1
    /\ UNCHANGED <<api_call_count, total_token_usage, api_usage_log, usage_log,
                   pc, op, result, ret, wrote, order>>

Next ==
    \/ \E c \in Calls : CallInsert(c)
    \/ \E c \in Calls : CallQuery(c)
    \/ \E c \in Calls : DelegateCompletes(c)
    \/ \E c \in Calls : ResumeInsert(c)
    \/ \E c \in Calls : ResumeQuery(c)
    \/ Tick

Spec == Init /\ [][Next]_vars

\* ---- vocabulary of the properties ----------------------------------------
\* calls whose coroutine has resumed and run to its end
Resumed == {c \in Calls : pc[c] \in {"returned", "raised"}}

\* the step in which call c resumes after its await and runs to its end
Resuming(c) == pc[c] = "resumable" /\ pc'[c] \in {"returned", "raised"}

\* the engine's response is a mapping with a usage field
CarriesUsage(r) == r.kind = "value" /\ "usage" \in DOMAIN r.value

\* ... whose usage field has a total_tokens sub-field
CarriesTokens(r) == CarriesUsage(r) /\ "total_tokens" \in DOMAIN r.value.usage

\* the token count the engine reported to call c (0 if it reported none)
Reported(c) == IF CarriesTokens(result[c]) THEN result[c].value.usage.total_tokens ELSE 0

\* call c reached the accounting step (_log_api_usage)
Accounted(c) ==
    \/ op[c] = "insert" /\ result[c].kind = "value"
    \/ op[c] = "query" /\ result[c].kind \in {"value", "none"}

RECURSIVE SumReported(_)
SumReported(s) == IF s = << >> THEN 0 ELSE Reported(Head(s)) + SumReported(Tail(s))

RECURSIVE SumTokenUsage(_)
SumTokenUsage(recs) ==
    IF recs = << >> THEN 0 ELSE Head(recs).token_usage + SumTokenUsage(Tail(recs))

UsageOrder == SelectSeq(order, LAMBDA c : CarriesUsage(result[c]))
AccountedOrder == SelectSeq(order, LAMBDA c : Accounted(c))

TypeOK ==
    /\ api_call_count \in 0..MaxCalls
    /\ total_token_usage \in 0..(MaxCalls * MaxTok)
    /\ now \in 0..MaxClock
    /\ pc \in [Calls -> {"idle", "awaiting", "resumable", "returned", "raised"}]
    /\ op \in [Calls -> {"", "insert", "query"}]
    /\ wrote \in [Calls -> {"na", "ok", "fail"}]
    /\ Len(order) = Cardinality(Resumed)
    /\ Len(api_usage_log) <= MaxCalls

\* ---- C1 ------------------------------------------------------------------
\* C1: when every call that has run to its end got a response carrying
\* usage.total_tokens (no engine failure), api_call_count is the number of
\* those calls and total_token_usage is the sum of their token counts; both
\* counters start at 0.
C1_CountersAreSums ==
    (\A c \in Resumed : CarriesTokens(result[c]))
        => /\ api_call_count = Cardinality(Resumed)
           /\ total_token_usage = SumReported(order)

\* insert reporting 2 tokens, then query reporting 1: counters 2 and 3
C1_Witness ==
    /\ Len(order) = 2
    /\ op[order[1]] = "insert" /\ op[order[2]] = "query"
    /\ CarriesTokens(result[order[1]]) /\ Reported(order[1]) = 2
    /\ CarriesTokens(result[order[2]]) /\ Reported(order[2]) = 1
    /\ api_call_count = 2
    /\ total_token_usage = 3

\* ---- C2 ------------------------------------------------------------------
\* C2: when no append to api_usage_log.json has failed, the file holds one
\* record per usage-bearing call, in the order the calls were accounted, and
\* the total_token_usage of the k-th record is the sum of the token_usage
\* fields of records 1..k.
C2_RecordsArePrefixSums ==
    (\A c \in Resumed : wrote[c] # "fail")
        => /\ Len(api_usage_log) = Len(UsageOrder)
           /\ \A k \in 1..Len(api_usage_log) :
                 /\ api_usage_log[k].operation = op[UsageOrder[k]]
                 /\ api_usage_log[k].token_usage = Reported(UsageOrder[k])
                 /\ api_usage_log[k].total_token_usage =
                        SumTokenUsage(SubSeq(api_usage_log, 1, k))

\* two records, the second one's running total above its own usage
C2_Witness ==
    /\ Len(api_usage_log) = 2
    /\ \A c \in Resumed : wrote[c] = "ok"
    /\ api_usage_log[1].token_usage = 2
    /\ api_usage_log[2].token_usage = 1
    /\ api_usage_log[2].total_token_usage = 3

\* ---- C3 ------------------------------------------------------------------
\* C3: a call whose engine response lacks a usage field leaves api_call_count
\* and total_token_usage unchanged and appends no record.
C3_NoUsageLeavesCounters ==
    [][\A c \in Calls :
          (Resuming(c) /\ result[c].kind = "value" /\ ~CarriesUsage(result[c]))
              => /\ api_call_count' = api_call_count
                 /\ total_token_usage' = total_token_usage
                 /\ api_usage_log' = api_usage_log]_vars

\* ---- C4 ------------------------------------------------------------------
\* C4: an insert whose engine result is None leaves both counters and
\* api_usage_log.json unchanged and returns None to the caller.
C4_EmptyInsert ==
    [][\A c \in Calls :
          (Resuming(c) /\ op[c] = "insert" /\ result[c].kind = "none")
              => /\ api_call_count' = api_call_count
                 /\ total_token_usage' = total_token_usage
                 /\ api_usage_log' = api_usage_log
                 /\ pc'[c] = "returned"
                 /\ ret'[c] = None]_vars

\* an insert returned None after an earlier call had been accounted
C4_Witness ==
    \E c \in Calls :
        /\ op[c] = "insert" /\ pc[c] = "returned"
        /\ result[c].kind = "none" /\ ret[c].kind = "none"
        /\ api_call_count = 1 /\ total_token_usage = 2
        /\ Len(api_usage_log) = 1

\* ---- C5 ------------------------------------------------------------------
\* C5: when the engine's insert or query raises, the wrapper logs one error
\* line and raises that same exception to the caller; the counters and
\* api_usage_log.json are unchanged.
C5_DelegateRaises ==
    [][\A c \in Calls :
          (Resuming(c) /\ result[c].kind = "raise")
              => /\ pc'[c] = "raised"
                 /\ ret'[c] = [kind |-> "raise", exc |-> result[c].exc]
                 /\ Len(usage_log') = Len(usage_log) + 1
                 /\ SubSeq(usage_log', 1, Len(usage_log)) = usage_log
                 /\ usage_log'[Len(usage_log')].level = "ERROR"
                 /\ api_call_count' = api_call_count
                 /\ total_token_usage' = total_token_usage
                 /\ api_usage_log' = api_usage_log]_vars

\* an insert and a query have both raised what the engine raised
C5_Witness ==
    \E c, d \in Calls :
        /\ op[c] = "insert" /\ op[d] = "query"
        /\ pc[c] = "raised" /\ pc[d] = "raised"
        /\ result[c].kind = "raise" /\ result[d].kind = "raise"
        /\ ret[c] = result[c] /\ ret[d] = result[d]
        /\ result[c].exc # result[d].exc
        /\ usage_log[Len(usage_log)].level = "ERROR"

\* ---- C6 ------------------------------------------------------------------
\* C6: when the append of a call's usage record fails, the failure is logged
\* as an error, the call returns the engine's result to its caller and raises
\* nothing, and the counters keep the update made for that call.
C6_WriteFailureIsSoft ==
    [][\A c \in Calls :
          (Resuming(c) /\ wrote'[c] = "fail")
              => /\ pc'[c] = "returned"
                 /\ ret'[c] = result[c]
                 /\ api_call_count' = api_call_count + 1
                 /\ total_token_usage' = total_token_usage + Reported(c)
                 /\ api_usage_log' = api_usage_log
                 /\ \E i \in (Len(usage_log) + 1)..Len(usage_log') :
                       usage_log'[i].level = "ERROR"]_vars

\* a call reporting 2 tokens returned although its record was not written
C6_Witness ==
    \E c \in Calls :
        /\ wrote[c] = "fail" /\ pc[c] = "returned"
        /\ Reported(c) = 2 /\ ret[c] = result[c]
        /\ total_token_usage = 2 /\ api_call_count = 1
        /\ api_usage_log = << >>

\* ---- C7 ------------------------------------------------------------------
\* C7: a call whose engine result is a response (not None, no exception)
\* returns exactly that response to its caller, with or without a usage field.
C7_ReturnsDelegateResult ==
    [][\A c \in Calls :
          (Resuming(c) /\ result[c].kind = "value")
              => /\ pc'[c] = "returned"
                 /\ ret'[c] = result[c]]_vars

\* one call returned a response with usage, another one without
C7_Witness ==
    \E c, d \in Calls :
        /\ op[c] = "insert" /\ op[d] = "query"
        /\ pc[c] = "returned" /\ pc[d] = "returned"
        /\ CarriesTokens(result[c]) /\ ret[c] = result[c]
        /\ result[d].kind = "value" /\ ~CarriesUsage(result[d]) /\ ret[d] = result[d]

\* ---- C8 ------------------------------------------------------------------
\* C8: the api_call fields of the records written to api_usage_log.json are
\* strictly increasing in write order.
C8_CallIndexIncreasing ==
    \A i, j \in 1..Len(api_usage_log) :
        i < j => api_usage_log[i].api_call < api_usage_log[j].api_call

\* two records, written by calls that resumed in the reverse of their start order
C8_Witness ==
    /\ Len(api_usage_log) = 2
    /\ order = <<2, 1>>
    /\ api_usage_log[1].operation = "query"
    /\ api_usage_log[2].operation = "insert"

\* ---- C9 ------------------------------------------------------------------
\* C9: under every interleaving of calls in flight at once, no update is
\* lost: total_token_usage is the sum of all reported token counts,
\* api_call_count is the number of calls that reached the accounting step,
\* the records carry distinct call indices, and each record's
\* total_token_usage is the sum of the token counts of the calls accounted
\* up to and including its own.
C9_NoLostUpdate ==
    /\ total_token_usage = SumReported(order)
    /\ api_call_count = Cardinality({c \in Resumed : Accounted(c)})
    /\ \A i, j \in 1..Len(api_usage_log) :
          i # j => api_usage_log[i].api_call # api_usage_log[j].api_call
    /\ \A k \in 1..Len(api_usage_log) :
          LET rec == api_usage_log[k] IN
          /\ rec.api_call \in 1..Len(AccountedOrder)
          /\ rec.token_usage = Reported(AccountedOrder[rec.api_call])
          /\ rec.total_token_usage =
                 SumReported(SubSeq(AccountedOrder, 1, rec.api_call))

\* both calls were awaiting the engine at once and resumed in reverse order
C9_Witness ==
    /\ order = <<2, 1>>
    /\ Reported(1) = 1 /\ Reported(2) = 2
    /\ api_call_count = 2
    /\ total_token_usage = 3
    /\ Len(api_usage_log) = 2
    /\ api_usage_log[2].total_token_usage = 3

\* ---- C10 -----------------------------------------------------------------
\* C10: a call whose response has a usage field without total_tokens is
\* accounted with token usage 0: api_call_count grows by one,
\* total_token_usage is unchanged, and the record appended (when the append
\* does not fail) has token_usage 0 and the unchanged running total.
C10_MissingTotalTokens ==
    [][\A c \in Calls :
          (Resuming(c) /\ CarriesUsage(result[c]) /\ ~CarriesTokens(result[c]))
              => /\ api_call_count' = api_call_count + 1
                 /\ total_token_usage' = total_token_usage
                 /\ wrote'[c] \in {"ok", "fail"}
                 /\ wrote'[c] = "ok" =>
                       api_usage_log' = Append(api_usage_log,
                           [api_call |-> api_call_count + 1,
                            operation |-> op[c],
                            token_usage |-> 0,
                            total_token_usage |-> total_token_usage,
                            timestamp |-> now])
                 /\ wrote'[c] = "fail" => api_usage_log' = api_usage_log]_vars

\* after a call reporting 2 tokens, a call without total_tokens wrote (2, 0, 2)
C10_Witness ==
    /\ Len(order) = 2
    /\ CarriesUsage(result[order[2]]) /\ ~CarriesTokens(result[order[2]])
    /\ wrote[order[2]] = "ok"
    /\ Len(api_usage_log) = 2
    /\ api_usage_log[2].api_call = 2
    /\ api_usage_log[2].token_usage = 0
    /\ api_usage_log[2].total_token_usage = 2

====
